---- MODULE Spec2Model ----
(***************************************************************************)
(* A model of mu_log: the global logger s_logger (sink function pointer    *)
(* and threshold), its setters, getters, mu_log, mu_log_will_log,          *)
(* mu_log_level_name and the default sink mu_log_stdout_fn, in both the    *)
(* simple and the formatted build.  The stdout functions (fputs, printf,   *)
(* vprintf) and mock_print_fn are the fakes of test/test_mu_log.c: each    *)
(* call of a fake is recorded with its arguments and returns a value the   *)
(* test chooses (rets[k] for the k-th fake call of an operation).          *)
(*                                                                         *)
(* One public call is one action.  What the call did (its arguments, its   *)
(* return value, the sink invocations and the fake calls it made, the      *)
(* table slots it read) is kept in rec until RESET_FAKE clears the         *)
(* recordings, as setUp does before every test.                            *)
(***************************************************************************)
EXTENDS Integers, Sequences, FiniteSets, TLC

VARIABLES s_logger, mode, rec, hist, crashed

vars == <<s_logger, mode, rec, hist, crashed>>

\* ---------------------------------------------------------------- bounds
NegLevelArgs == 2      \* level_name is given integers down to -NegLevelArgs
MaxLevelArg == 6       \* largest integer passed as a level or a threshold
NegWriteRets == 2      \* a fake write returns values down to -NegWriteRets
MaxWriteRet == 2       \* largest value a fake write returns
NumMessages == 2       \* number of distinct messages / format templates
NumAps == 2            \* number of distinct argument lists (formatted build)

\* ------------------------------------------------------- levels (mu_log.h)
MU_LOG_LEVEL_TRACE == 0
MU_LOG_LEVEL_DEBUG == 1
MU_LOG_LEVEL_INFO == 2
MU_LOG_LEVEL_WARN == 3
MU_LOG_LEVEL_ERROR == 4
MU_LOG_LEVEL_FATAL == 5
MU_LOG_DEFAULT_LEVEL == MU_LOG_LEVEL_INFO

Levels == MU_LOG_LEVEL_TRACE..MU_LOG_LEVEL_FATAL

\* s_level_names[], indexed from 0 in C and from 1 here
s_level_names == <<"TRACE", "DEBUG", "INFO", "WARN", "ERROR", "FATAL">>
N_LOG_LEVELS == Len(s_level_names)

\* `level < N_LOG_LEVELS` compares a level with a size_t: the level is
\* converted to size_t, i.e. reduced modulo 2^(width of size_t).  The width
\* is 16 here (the smallest size_t C allows); the inputs stay far below it.
SIZE_MOD == 2^16
ToSizeT(v) == v % SIZE_MOD

\* ------------------------------------------------------------ input sets
NULL == "NULL"
Sinks == {NULL, "test_log_fn", "mu_log_stdout_fn"}
Modes == {"simple", "formatted"}

LevelArgs == 0..MaxLevelArg
NameArgs == (-NegLevelArgs)..MaxLevelArg
WriteRets == (-NegWriteRets)..MaxWriteRet

MessagePool == <<"Hello, world!", "x", "Simple message.", "Hello, %s!">>
ApPool == <<"world", "test", "42">>
NoAp == ""
Messages == {MessagePool[i] : i \in 1..NumMessages}
Aps(md) == IF md = "formatted" THEN {ApPool[i] : i \in 1..NumAps} ELSE {NoAp}

\* --------------------------------------------------------- pure functions
\* s_level_names[i]: a read outside the table yields no defined name
TableRead(i) == IF i \in 0..(N_LOG_LEVELS - 1) THEN s_level_names[i + 1] ELSE "<out of bounds>"

\* the bound check made on the signed value
LevelNameSigned(level) ==
    IF level < N_LOG_LEVELS
    THEN [name |-> TableRead(level), reads |-> <<level>>]
    ELSE [name |-> "UNKNOWN", reads |-> <<>>]

\* mu_log_level_name: the name returned and the table slots read
LevelName(level) ==
    IF ToSizeT(level) < N_LOG_LEVELS
    THEN [name |-> TableRead(ToSizeT(level)), reads |-> <<ToSizeT(level)>>]
    ELSE [name |-> "UNKNOWN", reads |-> <<>>]

mu_log_level_name(level) == LevelName(level).name

\* mutations of mu_log_will_log: a strict comparison, no NULL check
WillLogStrict(lg, level) == (lg.log_fn # NULL) /\ (level > lg.threshold)

WillLogNoSinkCheck(lg, level) == level >= lg.threshold

mu_log_will_log(lg, level) == (lg.log_fn # NULL) /\ (level >= lg.threshold)

\* one recorded call of a fake
FakeCall(fn, a0, a1, r) == [fn |-> fn, arg0 |-> a0, arg1 |-> a1, ret |-> r]

Outcome(r, ws, ms) == [ret |-> r, writes |-> ws, mock_calls |-> ms]

\* the simple sink without its trailing newline
StdoutSimpleNoNewline(lg, level, message, rets) ==
    LET w1 == FakeCall("fputs", mu_log_level_name(level), "stdout", rets[1])
        w2 == FakeCall("fputs", ": ", "stdout", rets[2])
        w3 == FakeCall("fputs", message, "stdout", rets[3])
    IN  IF ~mu_log_will_log(lg, level) THEN Outcome(0, <<>>, <<>>)
        ELSE IF rets[1] < 0 THEN Outcome(rets[1], <<w1>>, <<>>)
        ELSE IF rets[2] < 0 THEN Outcome(rets[2], <<w1, w2>>, <<>>)
        ELSE Outcome(rets[3], <<w1, w2, w3>>, <<>>)

\* the simple sink without the check after its second write
StdoutSimpleNoSecondCheck(lg, level, message, rets) ==
    LET w1 == FakeCall("fputs", mu_log_level_name(level), "stdout", rets[1])
        w2 == FakeCall("fputs", ": ", "stdout", rets[2])
        w3 == FakeCall("fputs", message, "stdout", rets[3])
        w4 == FakeCall("fputs", "\n", "stdout", rets[4])
    IN  IF ~mu_log_will_log(lg, level) THEN Outcome(0, <<>>, <<>>)
        ELSE IF rets[1] < 0 THEN Outcome(rets[1], <<w1>>, <<>>)
        ELSE IF rets[3] < 0 THEN Outcome(rets[3], <<w1, w2, w3>>, <<>>)
        ELSE Outcome(rets[4], <<w1, w2, w3, w4>>, <<>>)

\* mu_log_stdout_fn, simple build; rets[i] is what the i-th fputs returns
StdoutSimple(lg, level, message, rets) ==
    LET w1 == FakeCall("fputs", mu_log_level_name(level), "stdout", rets[1])
        w2 == FakeCall("fputs", ": ", "stdout", rets[2])
        w3 == FakeCall("fputs", message, "stdout", rets[3])
        w4 == FakeCall("fputs", "\n", "stdout", rets[4])
    IN  IF ~mu_log_will_log(lg, level) THEN Outcome(0, <<>>, <<>>)
        ELSE IF rets[1] < 0 THEN Outcome(rets[1], <<w1>>, <<>>)
        ELSE IF rets[2] < 0 THEN Outcome(rets[2], <<w1, w2>>, <<>>)
        ELSE IF rets[3] < 0 THEN Outcome(rets[3], <<w1, w2, w3>>, <<>>)
        ELSE IF rets[4] < 0 THEN Outcome(rets[4], <<w1, w2, w3, w4>>, <<>>)
        ELSE Outcome(rets[4], <<w1, w2, w3, w4>>, <<>>)

\* mu_log_stdout_fn, formatted build; rets[1..3] are what printf, vprintf
\* and printf return
StdoutFormatted(lg, level, format, ap, rets) ==
    LET w1 == FakeCall("printf", "%5s: ", mu_log_level_name(level), rets[1])
        w2 == FakeCall("vprintf", format, ap, rets[2])
        w3 == FakeCall("printf", "\n", NoAp, rets[3])
    IN  IF ~mu_log_will_log(lg, level) THEN Outcome(0, <<>>, <<>>)
        ELSE IF rets[1] < 0 THEN Outcome(rets[1], <<w1>>, <<>>)
        ELSE IF rets[2] < 0 THEN Outcome(rets[2], <<w1, w2>>, <<>>)
        ELSE IF rets[3] < 0 THEN Outcome(rets[3], <<w1, w2, w3>>, <<>>)
        ELSE Outcome(rets[1] + rets[2] + rets[3], <<w1, w2, w3>>, <<>>)

\* the default sink without its mu_log_will_log check
StdoutNoGate(lg, md, level, message, ap, rets) ==
    LET open == [log_fn |-> "mu_log_stdout_fn", threshold |-> 0]
    IN  IF md = "formatted"
        THEN StdoutFormatted(open, level, message, ap, rets)
        ELSE StdoutSimple(open, level, message, rets)

mu_log_stdout_fn(lg, md, level, message, ap, rets) ==
    IF md = "formatted"
    THEN StdoutFormatted(lg, level, message, ap, rets)
    ELSE StdoutSimple(lg, level, message, rets)

\* test_log_fn: the trampoline of the tests; rets[1] is what mock_print_fn
\* returns
test_log_fn(lg, level, message, ap, rets) ==
    IF mu_log_will_log(lg, level)
    THEN Outcome(rets[1], <<>>, <<FakeCall("mock_print_fn", message, ap, rets[1])>>)
    ELSE Outcome(0, <<>>, <<>>)

\* a call through the function pointer fn (fn # NULL)
CallSink(fn, lg, md, level, message, ap, rets) ==
    IF fn = "mu_log_stdout_fn"
    THEN mu_log_stdout_fn(lg, md, level, message, ap, rets)
    ELSE test_log_fn(lg, level, message, ap, rets)

SinkCall(fn, level, message, ap, r) ==
    [fn |-> fn, level |-> level, message |-> message, ap |-> ap, ret |-> r]

\* the record of one public call
Call(op, level, message, ap, r, sinks, out, reads) ==
    [op |-> op, fn |-> NULL, level |-> level, message |-> message, ap |-> ap, ret |-> r,
     sink_calls |-> sinks, writes |-> out.writes, mock_calls |-> out.mock_calls,
     table_reads |-> reads]

Nothing == Outcome(0, <<>>, <<>>)
NoCall == Call("none", 0, "", NoAp, "void", <<>>, Nothing, <<>>)

\* mu_log gating on the threshold itself
MuLogGated(lg, md, level, message, ap, rets) ==
    LET out == CallSink(lg.log_fn, lg, md, level, message, ap, rets)
    IN  IF mu_log_will_log(lg, level)
        THEN Call("mu_log", level, message, ap, "void",
                  <<SinkCall(lg.log_fn, level, message, ap, out.ret)>>, out, <<>>)
        ELSE Call("mu_log", level, message, ap, "void", <<>>, Nothing, <<>>)

\* mu_log with lg.log_fn # NULL: the sink is called once, its result dropped
mu_log(lg, md, level, message, ap, rets) ==
    LET out == CallSink(lg.log_fn, lg, md, level, message, ap, rets)
    IN  Call("mu_log", level, message, ap, "void",
             <<SinkCall(lg.log_fn, level, message, ap, out.ret)>>, out, <<>>)

\* a setter that re-initialises the threshold
SetFnResetsThreshold(lg, fn) == [log_fn |-> fn, threshold |-> MU_LOG_DEFAULT_LEVEL]

\* a setter that refuses NULL
SetFnIgnoresNull(lg, fn) == [lg EXCEPT !.log_fn = IF fn = NULL THEN @ ELSE fn]

mu_log_set_fn(lg, fn) == [lg EXCEPT !.log_fn = fn]

mu_log_set_threshold(lg, threshold) == [lg EXCEPT !.threshold = threshold]

mu_log_get_fn(lg) == lg.log_fn

mu_log_get_threshold(lg) == lg.threshold

\* ------------------------------------------------------------------ state
Init ==
    /\ s_logger = [log_fn |-> NULL, threshold |-> MU_LOG_DEFAULT_LEVEL]
    /\ mode \in Modes
    /\ rec = NoCall
    /\ hist = [fn_set |-> FALSE, fn |-> NULL, th_set |-> FALSE, th |-> 0]
    /\ crashed = FALSE

\* a public call is made by a running program whose fakes are reset
Ready == ~crashed /\ rec.op = "none"

SetFn ==
    /\ Ready
    /\ \E fn \in Sinks :
        /\ s_logger' = mu_log_set_fn(s_logger, fn)
        /\ hist' = [hist EXCEPT !.fn_set = TRUE, !.fn = fn]
        /\ rec' = [Call("mu_log_set_fn", 0, "", NoAp, "void", <<>>, Nothing, <<>>)
                     EXCEPT !.fn = fn]
    /\ UNCHANGED <<mode, crashed>>

GetFn ==
    /\ Ready
    /\ rec' = Call("mu_log_get_fn", 0, "", NoAp, mu_log_get_fn(s_logger), <<>>, Nothing, <<>>)
    /\ UNCHANGED <<s_logger, mode, hist, crashed>>

SetThreshold ==
    /\ Ready
    /\ \E t \in LevelArgs :
        /\ s_logger' = mu_log_set_threshold(s_logger, t)
        /\ hist' = [hist EXCEPT !.th_set = TRUE, !.th = t]
        /\ rec' = Call("mu_log_set_threshold", t, "", NoAp, "void", <<>>, Nothing, <<>>)
    /\ UNCHANGED <<mode, crashed>>

GetThreshold ==
    /\ Ready
    /\ rec' = Call("mu_log_get_threshold", 0, "", NoAp, mu_log_get_threshold(s_logger),
                   <<>>, Nothing, <<>>)
    /\ UNCHANGED <<s_logger, mode, hist, crashed>>

WillLog ==
    /\ Ready
    /\ \E level \in LevelArgs :
        rec' = Call("mu_log_will_log", level, "", NoAp, mu_log_will_log(s_logger, level),
                    <<>>, Nothing, <<>>)
    /\ UNCHANGED <<s_logger, mode, hist, crashed>>

LevelNameCall ==
    /\ Ready
    /\ \E level \in NameArgs :
        rec' = Call("mu_log_level_name", level, "", NoAp, LevelName(level).name,
                    <<>>, Nothing, LevelName(level).reads)
    /\ UNCHANGED <<s_logger, mode, hist, crashed>>

\* mu_log with a sink installed
Log ==
    /\ Ready
    /\ s_logger.log_fn # NULL
    /\ \E level \in LevelArgs, message \in Messages, ap \in Aps(mode),
          rets \in [1..4 -> WriteRets] :
        rec' = mu_log(s_logger, mode, level, message, ap, rets)
    /\ UNCHANGED <<s_logger, mode, hist, crashed>>

\* mu_log with no sink installed: the call through the null pointer traps
LogNullTrap ==
    /\ Ready
    /\ s_logger.log_fn = NULL
    /\ \E level \in LevelArgs, message \in Messages, ap \in Aps(mode) :
        rec' = Call("mu_log", level, message, ap, "void", <<>>, Nothing, <<>>)
    /\ crashed' = TRUE
    /\ UNCHANGED <<s_logger, mode, hist>>

\* mu_log with no sink installed: the call through the null pointer comes
\* back without a visible effect
LogNullReturn ==
    /\ Ready
    /\ s_logger.log_fn = NULL
    /\ \E level \in LevelArgs, message \in Messages, ap \in Aps(mode) :
        rec' = Call("mu_log", level, message, ap, "void", <<>>, Nothing, <<>>)
    /\ UNCHANGED <<s_logger, mode, hist, crashed>>

\* mu_log_stdout_fn called directly, whatever sink is installed
StdoutFn ==
    /\ Ready
    /\ \E level \in LevelArgs, message \in Messages, ap \in Aps(mode),
          rets \in [1..4 -> WriteRets] :
        LET out == mu_log_stdout_fn(s_logger, mode, level, message, ap, rets)
        IN  rec' = Call("mu_log_stdout_fn", level, message, ap, out.ret, <<>>, out, <<>>)
    /\ UNCHANGED <<s_logger, mode, hist, crashed>>

\* RESET_FAKE of every fake: the recordings are cleared
RESET_FAKE ==
    /\ ~crashed
    /\ rec.op # "none"
    /\ rec' = NoCall
    /\ UNCHANGED <<s_logger, mode, hist, crashed>>

Next ==
    \/ SetFn
    \/ GetFn
    \/ SetThreshold
    \/ GetThreshold
    \/ WillLog
    \/ LevelNameCall
    \/ Log
    \/ LogNullTrap
    \/ LogNullReturn
    \/ StdoutFn
    \/ RESET_FAKE

Spec == Init /\ [][Next]_vars

\* ================================================================ claims
WillLogExpected == (s_logger.log_fn # NULL) /\ (rec.level >= s_logger.threshold)

ExpectedName(v) ==
    CASE v = 0 -> "TRACE"
      [] v = 1 -> "DEBUG"
      [] v = 2 -> "INFO"
      [] v = 3 -> "WARN"
      [] v = 4 -> "ERROR"
      [] v = 5 -> "FATAL"
      [] OTHER -> "UNKNOWN"

NoWriteFailed == \A i \in 1..Len(rec.writes) : rec.writes[i].ret >= 0

RECURSIVE SumRets(_)
SumRets(ws) == IF ws = <<>> THEN 0 ELSE ws[1].ret + SumRets(Tail(ws))

ExpectedThreshold == IF hist.th_set THEN hist.th ELSE MU_LOG_LEVEL_INFO
ExpectedSink == IF hist.fn_set THEN hist.fn ELSE NULL

\* C1: with no sink installed, log(level, message) returns normally as a
\* silent no-op: nothing is invoked, nothing crashes, the state is unchanged.
C1_NoSinkLogIsNoOp ==
    (rec.op = "mu_log" /\ s_logger.log_fn = NULL) =>
        /\ ~crashed
        /\ rec.sink_calls = <<>> /\ rec.writes = <<>> /\ rec.mock_calls = <<>>
        /\ s_logger.threshold = ExpectedThreshold

\* C2: for every level L in TRACE..FATAL, will_log(L) is true iff a sink is
\* installed and L >= threshold; it is false whenever no sink is installed.
C2_WillLogIff ==
    (rec.op = "mu_log_will_log" /\ rec.level \in Levels) =>
        /\ rec.ret = ((s_logger.log_fn # NULL) /\ (rec.level >= s_logger.threshold))
        /\ (s_logger.log_fn = NULL => rec.ret = FALSE)

C2_Witness ==
    /\ rec.op = "mu_log_will_log" /\ rec.level \in Levels
    /\ s_logger.log_fn = NULL /\ rec.level >= s_logger.threshold
    /\ rec.ret = FALSE

\* C3: simple build, will_log(level) true and every write succeeding:
\* default_sink returns the sum of the counts returned by the four writes.
C3_SimpleReturnsSum ==
    (rec.op = "mu_log_stdout_fn" /\ mode = "simple" /\ WillLogExpected /\ NoWriteFailed) =>
        rec.ret = SumRets(rec.writes)

\* C4: with a sink installed that honours will_log, a log(L, m) invokes the
\* output function exactly once when L >= threshold and never when
\* L < threshold.
C4_HonouringSinkOutputsOncePerPassingLog ==
    (rec.op = "mu_log" /\ s_logger.log_fn = "test_log_fn") =>
        Len(rec.mock_calls) = (IF rec.level >= s_logger.threshold THEN 1 ELSE 0)

C4_Witness ==
    /\ rec.op = "mu_log" /\ s_logger.log_fn = "test_log_fn"
    /\ s_logger.threshold = MU_LOG_LEVEL_WARN /\ rec.level = MU_LOG_LEVEL_WARN
    /\ Len(rec.mock_calls) = 1

C5_WitnessNegative ==
    /\ rec.op = "mu_log" /\ s_logger.log_fn # NULL
    /\ Len(rec.sink_calls) = 1 /\ rec.sink_calls[1].ret < 0 /\ rec.ret = "void"

\* C6: the threshold is the argument of the most recent set_threshold call,
\* or INFO if there was none; get_threshold returns it; no other operation
\* changes it.
C6_ThresholdIsLastSet ==
    /\ s_logger.threshold = ExpectedThreshold
    /\ (rec.op = "mu_log_get_threshold" => rec.ret = ExpectedThreshold)

C6_Witness ==
    /\ rec.op = "mu_log_get_threshold"
    /\ hist.th_set /\ hist.th = MU_LOG_LEVEL_WARN
    /\ hist.fn_set /\ s_logger.log_fn = NULL
    /\ rec.ret = MU_LOG_LEVEL_WARN

\* C7: the installed sink is the argument of the most recent set_sink call
\* (possibly absent), or absent if there was none; get_sink returns it; no
\* other operation changes it.
C7_SinkIsLastSet ==
    /\ s_logger.log_fn = ExpectedSink
    /\ (rec.op = "mu_log_get_fn" => rec.ret = ExpectedSink)

C7_Witness ==
    /\ rec.op = "mu_log_get_fn"
    /\ hist.fn_set /\ hist.fn = NULL /\ hist.th_set
    /\ rec.ret = NULL

\* C8: level_name returns the fixed name of each of the six levels and
\* "UNKNOWN" for every other integer, negative ones included, and reads the
\* name table only inside its bounds.
C8_LevelNameTotal ==
    (rec.op = "mu_log_level_name") =>
        /\ rec.ret = ExpectedName(rec.level)
        /\ \A i \in 1..Len(rec.table_reads) : rec.table_reads[i] \in 0..5
        /\ ~crashed

C8_Witness ==
    rec.op = "mu_log_level_name" /\ rec.level = -1 /\ rec.ret = "UNKNOWN"

\* C9: whenever will_log(level) is false, default_sink performs no write and
\* returns 0, in the simple and in the formatted build.
C9_BelowThresholdNoWrites ==
    /\ (rec.op = "mu_log_stdout_fn" /\ ~WillLogExpected) =>
            (rec.writes = <<>> /\ rec.ret = 0)
    /\ (rec.op = "mu_log" /\ s_logger.log_fn = "mu_log_stdout_fn" /\ ~WillLogExpected) =>
            (rec.writes = <<>> /\ rec.sink_calls[1].ret = 0)

C9_Witness ==
    /\ rec.op = "mu_log_stdout_fn" /\ mode = "formatted"
    /\ s_logger.log_fn = "mu_log_stdout_fn"
    /\ s_logger.threshold = MU_LOG_LEVEL_INFO /\ rec.level = MU_LOG_LEVEL_DEBUG
    /\ rec.writes = <<>> /\ rec.ret = 0

\* C10: simple build, will_log(level) true and no write failing:
\* default_sink performs exactly four writes, in this order: the level's
\* name, ": ", the message unchanged, "\n".
C10_SimpleFourWritesInOrder ==
    (rec.op = "mu_log_stdout_fn" /\ mode = "simple" /\ WillLogExpected /\ NoWriteFailed) =>
        /\ Len(rec.writes) = 4
        /\ [i \in 1..4 |-> rec.writes[i].arg0] =
               <<ExpectedName(rec.level), ": ", rec.message, "\n">>
        /\ \A i \in 1..4 : rec.writes[i].fn = "fputs" /\ rec.writes[i].arg1 = "stdout"

C10_Witness ==
    /\ rec.op = "mu_log_stdout_fn" /\ mode = "simple"
    /\ s_logger.threshold = MU_LOG_LEVEL_INFO /\ rec.level = MU_LOG_LEVEL_INFO
    /\ s_logger.log_fn # NULL /\ NoWriteFailed
    /\ Len(rec.writes) = 4 /\ rec.writes[3].arg0 = "Hello, world!"

FailedWrites == {i \in 1..Len(rec.writes) : rec.writes[i].ret < 0}

FirstFailed == CHOOSE i \in FailedWrites : \A j \in FailedWrites : i <= j

\* C11: if a write of a default_sink call returns a negative value,
\* default_sink returns exactly that first negative value and performs no
\* write after it, whichever write it is; sink and threshold are unchanged.
C11_WriteFailureShortCircuits ==
    (rec.op \in {"mu_log_stdout_fn", "mu_log"} /\ FailedWrites # {}) =>
        /\ Len(rec.writes) = FirstFailed
        /\ (rec.op = "mu_log_stdout_fn" => rec.ret = rec.writes[FirstFailed].ret)
        /\ (rec.op = "mu_log" =>
               Len(rec.sink_calls) = 1 /\ rec.sink_calls[1].ret = rec.writes[FirstFailed].ret)
        /\ ~crashed
        /\ s_logger.threshold = ExpectedThreshold /\ s_logger.log_fn = ExpectedSink

C11_Witness ==
    /\ rec.op = "mu_log_stdout_fn" /\ mode = "simple"
    /\ Len(rec.writes) = 2
    /\ rec.writes[1].ret >= 0 /\ rec.writes[2].ret = -2
    /\ rec.ret = -2

====
